---- MODULE Spec2Model ----
(***************************************************************************)
(* Retrieval evaluation harness of Module3_RAG/eval_retrieval.py:          *)
(* main() -> evaluate_metrics() -> detail log + cumulative report.         *)
(*                                                                         *)
(* Strings that the code takes apart (source paths, basenames) are         *)
(* sequences of characters; floats are exact rationals [num, den].         *)
(***************************************************************************)
EXTENDS Integers, Sequences, FiniteSets, TLC

\* ------------------------------------------------------------------ bounds
MaxK == 3
MaxPreK == 4
MaxQueries == 2
MaxRuns == 2
MaxOrders == 3
MaxClock == 1
MaxPage == 2

\* ------------------------------------------------------- values and floats
Null == "<None>"
None == [some |-> FALSE, val |-> 0]
Some(v) == [some |-> TRUE, val |-> v]

Rat(n, d) == [num |-> n, den |-> d]
Zero == Rat(0, 1)
RatEq(a, b) == a.num * b.den = b.num * a.den
RatLess(a, b) == a.num * b.den < b.num * a.den
RatLeq(a, b) == a.num * b.den <= b.num * a.den
RatAdd(a, b) == Rat(a.num * b.den + b.num * a.den, a.den * b.den)
RatDivInt(a, n) == Rat(a.num, a.den * n)

RECURSIVE SumRat(_)
SumRat(s) == IF s = <<>> THEN Zero ELSE RatAdd(SumRat(SubSeq(s, 1, Len(s) - 1)), s[Len(s)])

Take(s, n) == SubSeq(s, 1, IF n < Len(s) THEN n ELSE Len(s))
Contains(s, x) == \E i \in 1..Len(s) : s[i] = x
SetMax(S) == CHOOSE x \in S : \A y \in S : y <= x
SetMin(S) == CHOOSE x \in S : \A y \in S : x <= y

\* ------------------------------------------------------------ path strings
PathXA == <<"x", "/", "a">>
PathYB == <<"y", "/", "b">>
PathA == <<"a">>
PathDir == <<"x", "/">>
NameA == <<"a">>
NameB == <<"b">>
Empty == <<>>

\* os.path.basename: everything after the last "/"
basename(p) ==
    LET slashes == {i \in 1..Len(p) : p[i] = "/"}
        start == IF slashes = {} THEN 1 ELSE SetMax(slashes) + 1
    IN SubSeq(p, start, Len(p))

\* ------------------------------------------------------ retrieved documents
\* metadata is a dict: a key is present (has_*) or not
Doc(c, hasType, type, hasSource, src) ==
    [page_content |-> c, has_doc_type |-> hasType, doc_type |-> type,
     has_source |-> hasSource, source |-> src]

D1 == Doc("c1", TRUE, "contracts", TRUE, PathXA)
D2 == Doc("c2", TRUE, "products", TRUE, PathYB)
D3 == Doc("c3", FALSE, "", FALSE, Empty)
D4 == Doc("c4", TRUE, "products", TRUE, PathA)
D5 == Doc("c5", TRUE, "contracts", TRUE, PathDir)

Questions == {"q1", "q2", "q3", "q4"}

\* the ranked neighbours the vector index holds for each question
IndexA ==
    [qu \in Questions |->
        CASE qu = "q1" -> <<D1, D2, D3, D4>>
          [] qu = "q2" -> <<D3, D4, D2, D1>>
          [] qu = "q3" -> <<D5, D3, D2>>
          [] OTHER -> <<>>]

IndexB ==
    [qu \in Questions |->
        CASE qu = "q1" -> <<D2, D3, D5, D1>>
          [] qu = "q2" -> <<D2>>
          [] qu = "q3" -> <<>>
          [] OTHER -> <<D3, D2>>]

\* the cross-encoder's relevance score of a passage
ScoresA == [c \in {"c1", "c2", "c3", "c4", "c5"} |->
              CASE c = "c1" -> 2 [] c = "c2" -> 3 [] c = "c3" -> 1
                [] c = "c4" -> 3 [] OTHER -> 0]
ScoresB == [c \in {"c1", "c2", "c3", "c4", "c5"} |->
              CASE c = "c1" -> 5 [] c = "c2" -> 1 [] c = "c3" -> 1
                [] c = "c4" -> 2 [] OTHER -> 4]

Backends == {[index |-> IndexA, scores |-> ScoresA],
             [index |-> IndexB, scores |-> ScoresB]}

\* ------------------------------------------------------------ eval queries
\* a JSON object: an optional key is present (has_*) or not
Query(id, qu, hasType, type, hasList, list, hasSingle, single) ==
    [id |-> id, question |-> qu,
     has_expected_doc_type |-> hasType, expected_doc_type |-> type,
     has_expected_source_basenames |-> hasList, expected_source_basenames |-> list,
     has_expected_source_basename |-> hasSingle, expected_source_basename |-> single]

Q1 == Query(1, "q1", TRUE, "contracts", TRUE, <<NameA>>, FALSE, Empty)
Q2 == Query(2, "q2", FALSE, "", FALSE, <<>>, TRUE, NameB)
Q3 == Query(3, "q3", TRUE, "unknown", TRUE, <<>>, FALSE, Empty)
Q4 == Query(4, "q1", TRUE, "", TRUE, <<NameA, NameA>>, TRUE, NameA)
Q5 == Query(5, "q4", TRUE, "products", TRUE, <<NameB>>, TRUE, Empty)

QueryPool == {Q1, Q2, Q3, Q4, Q5}

RECURSIVE SeqsUpTo(_, _)
SeqsUpTo(S, n) ==
    IF n = 0 THEN {<<>>}
    ELSE LET shorter == SeqsUpTo(S, n - 1)
         IN shorter \cup {Append(s, x) : s \in {t \in shorter : Len(t) = n - 1}, x \in S}

UniqueIds(s) == \A i, j \in 1..Len(s) : i # j => s[i].id # s[j].id

\* what the eval file can hold
EvalFiles ==
    {[state |-> st, content |-> <<>>] : st \in {"absent", "bad_utf8", "bad_json"}}
    \cup {[state |-> "ok", content |-> s] : s \in {t \in SeqsUpTo(QueryPool, MaxQueries) : UniqueIds(t)}}

\* --------------------------------------------- evaluate_metrics, per query
\* pre_k used as given
effective_pre_k_as_given(rerank, pre_k, k) == pre_k

\* lines 38-40: the number of candidates asked of the similarity search
effective_pre_k(rerank, pre_k, k) == IF rerank /\ pre_k < k THEN k ELSE pre_k

\* line 57: q.get("expected_doc_type")
expected_doc_type_of(q) == IF q.has_expected_doc_type THEN q.expected_doc_type ELSE Null

\* line 60: q.get("expected_source_basenames") or []
basenames_of(q) ==
    IF q.has_expected_source_basenames THEN q.expected_source_basenames ELSE <<>>

\* lines 63-65: the legacy single key is appended when truthy and not a member
merged_basenames(q) ==
    LET expected == basenames_of(q)
        single == q.expected_source_basename
    IN IF q.has_expected_source_basename /\ single # Empty /\ ~Contains(expected, single)
       THEN Append(expected, single)
       ELSE expected

\* line 65 appends to the list object held by q when line 60 returned that object
query_after_merge(q) ==
    IF q.has_expected_source_basenames /\ q.expected_source_basenames # <<>>
    THEN [q EXCEPT !.expected_source_basenames = merged_basenames(q)]
    ELSE q

\* every neighbour the index holds, whatever n
similarity_search_unbounded(index, question, n) == index[question]

\* vectorstore.similarity_search(question, k=n): the n nearest neighbours
similarity_search(index, question, n) == Take(index[question], n)

\* lines 88-92: stable sort by descending score, then the first k
ScoreOf(scores, d) == scores[d.page_content]
Before(scores, ds, i, j) ==
    \/ ScoreOf(scores, ds[i]) > ScoreOf(scores, ds[j])
    \/ ScoreOf(scores, ds[i]) = ScoreOf(scores, ds[j]) /\ i < j
PlaceOf(scores, ds, i) == Cardinality({j \in 1..Len(ds) : Before(scores, ds, j, i)}) + 1
sort_by_score(scores, ds) ==
    [r \in 1..Len(ds) |-> ds[CHOOSE i \in 1..Len(ds) : PlaceOf(scores, ds, i) = r]]
\* the first k candidates in the order the index gave them
rerank_top_unsorted(scores, ds, k) == Take(ds, k)
rerank_top(scores, ds, k) == Take(sort_by_score(scores, ds), k)

\* a missing doc_type read as the empty string
retrieved_types_of_blank_default(top) ==
    [i \in 1..Len(top) |-> IF top[i].has_doc_type THEN top[i].doc_type ELSE ""]

\* lines 96-97
retrieved_types_of(top) ==
    [i \in 1..Len(top) |-> IF top[i].has_doc_type THEN top[i].doc_type ELSE "unknown"]
retrieved_sources_of(top) ==
    [i \in 1..Len(top) |-> IF top[i].has_source THEN top[i].source ELSE Empty]

\* lines 100-103
type_hit_of(expected_doc_type, retrieved_types) ==
    /\ expected_doc_type # Null
    /\ expected_doc_type # ""
    /\ Contains(retrieved_types, expected_doc_type)

\* the "if not src: continue" of lines 113-114 left out
match_positions_of_counts_empty_source(expected_basenames, retrieved_sources) ==
    {i - 1 : i \in {n \in 1..Len(retrieved_sources) :
                      Contains(expected_basenames, basename(retrieved_sources[n]))}}

\* lines 111-117: 0-based indices of the sources whose basename is expected
match_positions_of(expected_basenames, retrieved_sources) ==
    {i - 1 : i \in {n \in 1..Len(retrieved_sources) :
                      /\ retrieved_sources[n] # Empty
                      /\ Contains(expected_basenames, basename(retrieved_sources[n]))}}

\* the rank taken as 1-based
rank_score_of_one_based(k, file_rank) == Rat(k - (file_rank + 1), k)

\* the difference left undivided
rank_score_of_unnormalised(k, file_rank) == Rat(k - file_rank, 1)

\* the quotient taken with integer division
rank_score_of_integer_division(k, file_rank) == Rat((k - file_rank) \div k, 1)

\* line 122
rank_score_of(k, file_rank) == Rat(k - file_rank, k)

\* the record keeps the list as it was before the legacy merge
scored_record_unmerged_list(q, expected_basenames, top, k) ==
    LET retrieved_types == retrieved_types_of(top)
        retrieved_sources == retrieved_sources_of(top)
        matches == IF expected_basenames # <<>>
                   THEN match_positions_of(expected_basenames, retrieved_sources)
                   ELSE {}
        hit == matches # {}
    IN [id |-> q.id,
        question |-> q.question,
        expected_doc_type |-> expected_doc_type_of(q),
        expected_source_basenames |-> basenames_of(q),
        retrieved_doc_types |-> retrieved_types,
        retrieved_sources |-> retrieved_sources,
        doc_type_hit |-> type_hit_of(expected_doc_type_of(q), retrieved_types),
        file_hit |-> hit,
        file_rank |-> IF hit THEN Some(SetMin(matches)) ELSE None,
        rank_score |-> IF hit THEN rank_score_of(k, SetMin(matches)) ELSE Zero]

\* lines 96-139: the record of a query whose documents are top
scored_record(q, expected_basenames, top, k) ==
    LET retrieved_types == retrieved_types_of(top)
        retrieved_sources == retrieved_sources_of(top)
        matches == IF expected_basenames # <<>>
                   THEN match_positions_of(expected_basenames, retrieved_sources)
                   ELSE {}
        hit == matches # {}
    IN [id |-> q.id,
        question |-> q.question,
        expected_doc_type |-> expected_doc_type_of(q),
        expected_source_basenames |-> expected_basenames,
        retrieved_doc_types |-> retrieved_types,
        retrieved_sources |-> retrieved_sources,
        doc_type_hit |-> type_hit_of(expected_doc_type_of(q), retrieved_types),
        file_hit |-> hit,
        file_rank |-> IF hit THEN Some(SetMin(matches)) ELSE None,
        rank_score |-> IF hit THEN rank_score_of(k, SetMin(matches)) ELSE Zero]

\* lines 71-85: the record of a query whose similarity search came back empty
empty_record(q, expected_basenames) ==
    [id |-> q.id,
     question |-> q.question,
     expected_doc_type |-> expected_doc_type_of(q),
     expected_source_basenames |-> expected_basenames,
     retrieved_doc_types |-> <<>>,
     retrieved_sources |-> <<>>,
     doc_type_hit |-> FALSE,
     file_hit |-> FALSE,
     file_rank |-> None,
     rank_score |-> Zero]

\* the means taken without the "if total" guard
metrics_of_unguarded(total, doc_type_hits, rank_scores) ==
    [num_queries |-> total,
     hit_at_k_doc_type |-> Rat(doc_type_hits, total),
     avg_rank_score |-> RatDivInt(SumRat(rank_scores), total)]

\* the hit rate taken with integer division
metrics_of_floor_division(total, doc_type_hits, rank_scores) ==
    [num_queries |-> total,
     hit_at_k_doc_type |-> IF total # 0 THEN Rat(doc_type_hits \div total, 1) ELSE Zero,
     avg_rank_score |-> IF total # 0 THEN RatDivInt(SumRat(rank_scores), total) ELSE Zero]

\* lines 141-148
metrics_of(total, doc_type_hits, rank_scores) ==
    [num_queries |-> total,
     hit_at_k_doc_type |-> IF total # 0 THEN Rat(doc_type_hits, total) ELSE Zero,
     avg_rank_score |-> IF total # 0 THEN RatDivInt(SumRat(rank_scores), total) ELSE Zero]

\* lines 55-139: the record one query gets when the search is asked for n documents
query_record(q, index, scores, k, rerank, n) ==
    LET expected == merged_basenames(q)
        found == similarity_search(index, q.question, n)
    IN IF ~rerank THEN scored_record(q, expected, found, k)
       ELSE IF found = <<>> THEN empty_record(q, expected)
       ELSE scored_record(q, expected, rerank_top(scores, found, k), k)

\* ------------------------------------------------------------ output files
Labels == {"A", "B"}
DbDir == "vector_db"
EvalFilePath == "eval_queries.jsonl"

NoFile == [exists |-> FALSE, content |-> <<>>]
File(c) == [exists |-> TRUE, content |-> c]

\* "{x:.3f}" of a rational in [0, 1]: the nearest thousandth
Format3(r) == (2000 * r.num + r.den) \div (2 * r.den)

\* line 183: the title written when the report does not exist
title_of(label) == [kind |-> "title", label |-> label]

\* the pre_k line of lines 172-173 left out
section_of_never_pre_k(label, db_dir, eval_file, k, metrics, rerank, pre_k) ==
    [kind |-> "section", label |-> label, db_dir |-> db_dir, eval_file |-> eval_file,
     k |-> k, rerank |-> rerank,
     pre_k |-> None,
     hit_at_k_doc_type |-> Format3(metrics.hit_at_k_doc_type),
     avg_rank_score |-> Format3(metrics.avg_rank_score)]

\* lines 165-178: the section of one run (the minute timestamp is left out)
section_of(label, db_dir, eval_file, k, metrics, rerank, pre_k) ==
    [kind |-> "section", label |-> label, db_dir |-> db_dir, eval_file |-> eval_file,
     k |-> k, rerank |-> rerank,
     pre_k |-> IF rerank /\ pre_k.some THEN pre_k ELSE None,
     hit_at_k_doc_type |-> Format3(metrics.hit_at_k_doc_type),
     avg_rank_score |-> Format3(metrics.avg_rank_score)]

\* the title written whether or not the report exists
append_to_report_always_titles(file, label, db_dir, eval_file, k, metrics, rerank, pre_k) ==
    File(<<title_of(label), section_of(label, db_dir, eval_file, k, metrics, rerank, pre_k)>>)

\* lines 180-189
append_to_report(file, label, db_dir, eval_file, k, metrics, rerank, pre_k) ==
    LET started == IF file.exists THEN file.content ELSE <<title_of(label)>>
    IN File(Append(started, section_of(label, db_dir, eval_file, k, metrics, rerank, pre_k)))

\* files left by earlier runs
OldDetails == <<empty_record(Q3, <<>>)>>
OldReport ==
    <<title_of("A"),
      section_of("A", DbDir, EvalFilePath, 5,
                 metrics_of(1, 0, <<Zero>>), FALSE, None)>>
InitialDisks ==
    {[details |-> [l \in Labels |-> NoFile], report |-> NoFile],
     [details |-> [l \in Labels |-> IF l = "A" THEN File(OldDetails) ELSE NoFile],
      report |-> File(OldReport)]}

\* ------------------------------------------------------------------- state
VARIABLES
    evalFile,            \* the query file on disk
    vectorstore,         \* the FAISS index: question -> ranked documents
    crossEncoder,        \* the re-ranking model: passage -> score
    detailFiles,         \* details<label>.json, per label
    reportFile,          \* the cumulative markdown report
    diskBefore,          \* the output files as main() found them
    pc,                  \* where main() / evaluate_metrics() stands
    args,                \* the parsed command line
    pre_k,               \* evaluate_metrics' local pre_k
    queries,             \* the loaded query list
    qi,                  \* 1-based position of the loop over queries
    expected_basenames,  \* of the query in progress
    docs,                \* candidates of the query in progress
    top_docs,            \* the documents last scored
    doc_type_hits,
    rank_scores,
    details,
    metrics,
    returned,            \* evaluate_metrics returned to main()
    stdout,
    error,               \* the exception that ended the run
    calls,               \* backend calls issued by the run, in order
    runs,                \* runs of main() completed before this one
    prev,                \* what the last completed run returned
    orders,              \* the rows of the orders table, in insertion order
    db_now,              \* the database server's clock
    request,             \* the HTTP request last handled by the Orders API
    response             \* and its response

vars == <<evalFile, vectorstore, crossEncoder, detailFiles, reportFile, diskBefore,
          pc, args, pre_k, queries, qi, expected_basenames, docs, top_docs,
          doc_type_hits, rank_scores, details, metrics, returned, stdout, error, calls,
          runs, prev, orders, db_now, request, response>>

env == <<evalFile, vectorstore, crossEncoder>>
disk == <<detailFiles, reportFile, diskBefore>>
loop == <<queries, qi, expected_basenames, docs, top_docs, doc_type_hits, rank_scores,
          details>>

session == <<runs, prev>>
api == <<orders, db_now, request, response>>

NoArgs == [k |-> 0, rerank |-> FALSE, pre_k |-> 0, label |-> "A"]
NoMetrics == metrics_of(0, 0, <<>>)
NoPrev == [set |-> FALSE, args |-> NoArgs, metrics |-> NoMetrics, details |-> <<>>]
NoRequest == [method |-> "none"]
NoResponse == [status_code |-> 0]

\* the evaluator before main() starts
EvaluatorIdle ==
    /\ pc = "start"
    /\ args = NoArgs
    /\ pre_k = 0
    /\ queries = <<>>
    /\ qi = 1
    /\ expected_basenames = <<>>
    /\ docs = <<>>
    /\ top_docs = <<>>
    /\ doc_type_hits = 0
    /\ rank_scores = <<>>
    /\ details = <<>>
    /\ metrics = NoMetrics
    /\ returned = FALSE
    /\ stdout = <<>>
    /\ error = Null
    /\ calls = <<>>
    /\ runs = 0
    /\ prev = NoPrev

\* the Orders API not running
ApiIdle ==
    /\ orders = <<>>
    /\ db_now = 0
    /\ request = NoRequest
    /\ response = NoResponse

Init ==
    /\ evalFile \in EvalFiles
    /\ \E b \in Backends : vectorstore = b.index /\ crossEncoder = b.scores
    /\ \E d \in InitialDisks :
         /\ detailFiles = d.details
         /\ reportFile = d.report
         /\ diskBefore = d
    /\ EvaluatorIdle
    /\ ApiIdle

\* an exception nobody catches ends the process
Raise(kind) == pc' = "failed" /\ error' = kind

\* main, lines 193-244: parse the command line and enter evaluate_metrics
Main ==
    /\ pc = "start"
    /\ \E k \in 1..MaxK, rerank \in BOOLEAN, p \in {1, MaxPreK}, label \in Labels :
         args' = [k |-> k, rerank |-> rerank, pre_k |-> p, label |-> label]
    /\ pre_k' = args'.pre_k
    /\ pc' = "setup"
    /\ UNCHANGED <<env, session, api, disk, loop, metrics, returned, stdout, error, calls>>

\* lines 31-45: load the index, fix pre_k, load the re-ranker
Setup ==
    /\ pc = "setup"
    /\ \/ /\ pre_k' = effective_pre_k(args.rerank, pre_k, args.k)
          /\ pc' = "load"
          /\ UNCHANGED error
       \/ /\ Raise("BackendError")
          /\ UNCHANGED pre_k
    /\ UNCHANGED <<env, session, api, disk, args, loop, metrics, returned, stdout, calls>>

\* a missing file read as an empty query list
load_eval_queries_missing_is_empty(file) ==
    CASE file.state = "absent" -> [raised |-> Null, value |-> <<>>]
      [] file.state = "bad_utf8" -> [raised |-> "UnicodeDecodeError", value |-> <<>>]
      [] file.state = "bad_json" -> [raised |-> "JSONDecodeError", value |-> <<>>]
      [] OTHER -> [raised |-> Null, value |-> file.content]

\* load_eval_queries, lines 18-20, called at line 47
load_eval_queries(file) ==
    CASE file.state = "absent" -> [raised |-> "FileNotFoundError", value |-> <<>>]
      [] file.state = "bad_utf8" -> [raised |-> "UnicodeDecodeError", value |-> <<>>]
      [] file.state = "bad_json" -> [raised |-> "JSONDecodeError", value |-> <<>>]
      [] OTHER -> [raised |-> Null, value |-> file.content]

\* the accumulators of lines 49-53 kept from an earlier call
LoadQueries_keeps_accumulators ==
    /\ pc = "load"
    /\ LET loaded == load_eval_queries(evalFile)
       IN IF loaded.raised # Null
          THEN /\ Raise(loaded.raised)
               /\ UNCHANGED <<queries, qi, doc_type_hits, rank_scores, details>>
          ELSE /\ queries' = loaded.value
               /\ qi' = 1
               /\ pc' = "loop"
               /\ UNCHANGED <<doc_type_hits, rank_scores, details, error>>
    /\ UNCHANGED <<env, session, api, disk, args, pre_k, expected_basenames, docs, top_docs,
                   metrics, returned, stdout, calls>>

\* lines 47-53
LoadQueries ==
    /\ pc = "load"
    /\ LET loaded == load_eval_queries(evalFile)
       IN IF loaded.raised # Null
          THEN /\ Raise(loaded.raised)
               /\ UNCHANGED <<queries, qi, doc_type_hits, rank_scores, details>>
          ELSE /\ queries' = loaded.value
               /\ qi' = 1
               /\ doc_type_hits' = 0
               /\ rank_scores' = <<>>
               /\ details' = <<>>
               /\ pc' = "loop"
               /\ UNCHANGED error
    /\ UNCHANGED <<env, session, api, disk, args, pre_k, expected_basenames, docs, top_docs, metrics,
                   returned, stdout, calls>>

\* lines 55-69 / 94: next query, legacy merge, the similarity search is issued
search_size(rerank, k, eff_pre_k) == IF rerank THEN eff_pre_k ELSE k

\* the search of the query after this one issued along with this one's
BeginQuery_prefetches ==
    /\ pc = "loop"
    /\ qi <= Len(queries)
    /\ expected_basenames' = merged_basenames(queries[qi])
    /\ queries' = [queries EXCEPT ![qi] = query_after_merge(@)]
    /\ calls' = calls \o <<[op |-> "similarity_search", query |-> qi,
                            n |-> search_size(args.rerank, args.k, pre_k)],
                           [op |-> "similarity_search", query |-> qi + 1,
                            n |-> search_size(args.rerank, args.k, pre_k)]>>
    /\ pc' = "searching"
    /\ UNCHANGED <<env, session, api, disk, args, pre_k, qi, docs, top_docs, doc_type_hits,
                   rank_scores, details, metrics, returned, stdout, error>>

BeginQuery ==
    /\ pc = "loop"
    /\ qi <= Len(queries)
    /\ expected_basenames' = merged_basenames(queries[qi])
    /\ queries' = [queries EXCEPT ![qi] = query_after_merge(@)]
    /\ calls' = Append(calls, [op |-> "similarity_search", query |-> qi,
                               n |-> search_size(args.rerank, args.k, pre_k)])
    /\ pc' = "searching"
    /\ UNCHANGED <<env, session, api, disk, args, pre_k, qi, docs, top_docs, doc_type_hits,
                   rank_scores, details, metrics, returned, stdout, error>>

\* the record put in front of the earlier ones
ScoreAndAppend_prepends(top) ==
    LET rec == scored_record(queries[qi], expected_basenames, top, args.k)
    IN /\ top_docs' = top
       /\ doc_type_hits' = IF rec.doc_type_hit THEN doc_type_hits + 1 ELSE doc_type_hits
       /\ rank_scores' = <<rec.rank_score>> \o rank_scores
       /\ details' = <<rec>> \o details
       /\ qi' = qi + 1
       /\ pc' = "loop"

\* lines 96-139: score top_docs, append the record, go to the next query
ScoreAndAppend(top) ==
    LET rec == scored_record(queries[qi], expected_basenames, top, args.k)
    IN /\ top_docs' = top
       /\ doc_type_hits' = IF rec.doc_type_hit THEN doc_type_hits + 1 ELSE doc_type_hits
       /\ rank_scores' = Append(rank_scores, rec.rank_score)
       /\ details' = Append(details, rec)
       /\ qi' = qi + 1
       /\ pc' = "loop"

\* the "if not docs" short-circuit of lines 70-86 left out
SearchReturns_no_short_circuit ==
    /\ pc = "searching"
    /\ LET found == similarity_search(vectorstore, queries[qi].question,
                                      search_size(args.rerank, args.k, pre_k))
       IN IF ~args.rerank
          THEN /\ ScoreAndAppend(found)
               /\ UNCHANGED <<docs, calls>>
          ELSE /\ docs' = found
               /\ calls' = Append(calls, [op |-> "predict", query |-> qi, n |-> Len(found)])
               /\ pc' = "reranking"
               /\ UNCHANGED <<qi, top_docs, doc_type_hits, rank_scores, details>>
    /\ UNCHANGED <<env, session, api, disk, args, pre_k, queries, expected_basenames, metrics,
                   returned, stdout, error>>

\* lines 69-94: the similarity search returns
SearchReturns ==
    /\ pc = "searching"
    /\ LET found == similarity_search(vectorstore, queries[qi].question,
                                      search_size(args.rerank, args.k, pre_k))
       IN IF ~args.rerank
          THEN /\ ScoreAndAppend(found)
               /\ UNCHANGED <<docs, calls>>
          ELSE IF found = <<>>
          THEN /\ rank_scores' = Append(rank_scores, Zero)
               /\ details' = Append(details, empty_record(queries[qi], expected_basenames))
               /\ qi' = qi + 1
               /\ pc' = "loop"
               /\ UNCHANGED <<docs, top_docs, doc_type_hits, calls>>
          ELSE /\ docs' = found
               /\ calls' = Append(calls, [op |-> "predict", query |-> qi, n |-> Len(found)])
               /\ pc' = "reranking"
               /\ UNCHANGED <<qi, top_docs, doc_type_hits, rank_scores, details>>
    /\ UNCHANGED <<env, session, api, disk, args, pre_k, queries, expected_basenames, metrics,
                   returned, stdout, error>>

\* lines 69 / 94: the retrieval backend fails; nothing catches it
SearchRaises ==
    /\ pc = "searching"
    /\ Raise("BackendError")
    /\ UNCHANGED <<env, session, api, disk, args, pre_k, loop, metrics, returned, stdout, calls>>

\* lines 89-92, then 96-139: the cross-encoder returns its scores
PredictReturns ==
    /\ pc = "reranking"
    /\ ScoreAndAppend(rerank_top(crossEncoder, docs, args.k))
    /\ UNCHANGED <<env, session, api, disk, args, pre_k, queries, expected_basenames, docs, metrics,
                   returned, stdout, error, calls>>

\* line 89: the cross-encoder fails
PredictRaises ==
    /\ pc = "reranking"
    /\ Raise("BackendError")
    /\ UNCHANGED <<env, session, api, disk, args, pre_k, loop, metrics, returned, stdout, calls>>

\* the return of line 150 reached from inside the loop body
Aggregate_inside_loop ==
    /\ pc = "loop"
    /\ qi > 1 \/ qi > Len(queries)
    /\ metrics' = metrics_of(Len(queries), doc_type_hits, rank_scores)
    /\ returned' = TRUE
    /\ pc' = "returned"
    /\ UNCHANGED <<env, session, api, disk, args, pre_k, loop, stdout, error, calls>>

\* lines 141-150: after the last query
Aggregate ==
    /\ pc = "loop"
    /\ qi > Len(queries)
    /\ metrics' = metrics_of(Len(queries), doc_type_hits, rank_scores)
    /\ returned' = TRUE
    /\ pc' = "returned"
    /\ UNCHANGED <<env, session, api, disk, args, pre_k, loop, stdout, error, calls>>

\* the detail log opened with "a"
WriteDetails_appends ==
    /\ pc = "returned"
    /\ detailFiles' = [detailFiles EXCEPT
                         ![args.label] = File(detailFiles[args.label].content \o details)]
    /\ pc' = "report"
    /\ UNCHANGED <<env, session, api, reportFile, diskBefore, args, pre_k, loop, metrics,
                   returned, stdout, error, calls>>

\* main, lines 246-247: the detail log is opened with "w" and dumped
WriteDetails ==
    /\ pc = "returned"
    /\ detailFiles' = [detailFiles EXCEPT ![args.label] = File(details)]
    /\ pc' = "report"
    /\ UNCHANGED <<env, session, api, reportFile, diskBefore, args, pre_k, loop, metrics, returned,
                   stdout, error, calls>>

\* main, lines 249-259: print the metrics, append the report section
WriteReport ==
    /\ pc = "report"
    /\ stdout' = Append(stdout, metrics)
    /\ reportFile' = append_to_report(reportFile, args.label, DbDir, EvalFilePath, args.k,
                                      metrics, args.rerank,
                                      IF args.rerank THEN Some(args.pre_k) ELSE None)
    /\ pc' = "exited"
    /\ UNCHANGED <<env, session, api, detailFiles, diskBefore, args, pre_k, loop, metrics, returned,
                   error, calls>>

Next ==
    \/ Main
    \/ Setup
    \/ LoadQueries
    \/ BeginQuery
    \/ SearchReturns
    \/ SearchRaises
    \/ PredictReturns
    \/ PredictRaises
    \/ Aggregate
    \/ WriteDetails
    \/ WriteReport

Spec == Init /\ [][Next]_vars

\* ------------------------------------------------------------------- types
TypeOK ==
    /\ pc \in {"start", "setup", "load", "loop", "searching", "reranking",
               "returned", "report", "exited", "failed"}
    /\ qi \in 1..(MaxQueries + 1)
    /\ Len(details) = Len(rank_scores)
    /\ returned \in BOOLEAN

\* ------------------------------------------------------- main() run again
\* a list that the legacy merge extends in place
Q6 == Query(6, "q2", TRUE, "products", TRUE, <<NameA>>, TRUE, NameB)

RunEvalFiles ==
    {[state |-> "ok", content |-> s] : s \in {<<Q6, Q1>>, <<Q4, Q5>>, <<Q3>>}}

\* main, lines 192-244, started again after a completed run: a new process over the
\* same files and backend, with the same k and pre_k.  What evaluate_metrics' locals
\* held is of no account until the code assigns them.
Rerun ==
    /\ pc = "exited"
    /\ runs + 1 < MaxRuns
    /\ runs' = runs + 1
    /\ prev' = [set |-> TRUE, args |-> args, metrics |-> metrics, details |-> details]
    /\ diskBefore' = [details |-> detailFiles, report |-> reportFile]
    /\ \E rerank \in BOOLEAN, label \in Labels :
         args' = [args EXCEPT !.rerank = rerank, !.label = label]
    /\ pre_k' = args'.pre_k
    /\ pc' = "setup"
    /\ returned' = FALSE
    /\ stdout' = <<>>
    /\ error' = Null
    /\ calls' = <<>>
    /\ UNCHANGED <<env, api, detailFiles, reportFile, loop, metrics>>

InitRuns ==
    /\ evalFile \in RunEvalFiles
    /\ \E b \in Backends : vectorstore = b.index /\ crossEncoder = b.scores
    /\ \E d \in InitialDisks :
         /\ detailFiles = d.details
         /\ reportFile = d.report
         /\ diskBefore = d
    /\ EvaluatorIdle
    /\ ApiIdle

NextRuns == Next \/ Rerun

SpecRuns == InitRuns /\ [][NextRuns]_vars

\* ------------------------------------------- main() over other query files
\* an expected list that holds the empty string, and one with two names
Q7 == Query(7, "q1", FALSE, "", TRUE, <<Empty>>, FALSE, Empty)
Q8 == Query(8, "q1", TRUE, "products", TRUE, <<NameB, NameA>>, TRUE, NameA)

ScoringEvalFiles ==
    {[state |-> "ok", content |-> s] : s \in {<<Q7>>, <<Q8>>, <<Q7, Q8>>, <<Q1, Q7>>}}

InitScoring ==
    /\ evalFile \in ScoringEvalFiles
    /\ \E b \in Backends : vectorstore = b.index /\ crossEncoder = b.scores
    /\ \E d \in InitialDisks :
         /\ detailFiles = d.details
         /\ reportFile = d.report
         /\ diskBefore = d
    /\ EvaluatorIdle
    /\ ApiIdle

SpecScoring == InitScoring /\ [][Next]_vars

\* ------------------------------------------------------------- Orders API
MaxNameLen == 200
LimitMax == 100

evaluator == <<env, disk, pc, args, pre_k, loop, metrics, returned, stdout, error, calls,
               session>>

Ann == <<"a", "n", "n">>
LongName == [i \in 1..(MaxNameLen + 1) |-> "x"]
Statuses == {"pending", "completed", "cancelled"}

\* models.py lines 7-14: a row of the orders table
Order(id, customer_name, status, amount, created_at) ==
    [id |-> id, customer_name |-> customer_name, status |-> status, amount |-> amount,
     created_at |-> created_at]

\* schemas.py lines 6-9: the body of POST /orders
OrderCreate(customer_name, status, amount) ==
    [customer_name |-> customer_name, status |-> status, amount |-> amount]

\* amount checked with ge=0
OrderCreate_valid_ge_zero(body) ==
    /\ Len(body.customer_name) >= 1
    /\ Len(body.customer_name) <= MaxNameLen
    /\ body.status \in Statuses
    /\ body.amount >= 0

\* schemas.py lines 7-9: min_length=1, max_length=200; pattern; gt=0
OrderCreate_valid(body) ==
    /\ Len(body.customer_name) >= 1
    /\ Len(body.customer_name) <= MaxNameLen
    /\ body.status \in Statuses
    /\ body.amount > 0

PostBodies ==
    {OrderCreate(Ann, "pending", 1), OrderCreate(Ann, "completed", 3),
     OrderCreate(<<>>, "pending", 1), OrderCreate(LongName, "pending", 1),
     OrderCreate(Ann, "shipped", 1),
     OrderCreate(Ann, "pending", 0), OrderCreate(Ann, "completed", -1),
     OrderCreate(<<>>, "", 0)}

\* models.py line 10: the integer primary key given to a new row
next_id(tbl) == IF tbl = <<>> THEN 1 ELSE SetMax({tbl[i].id : i \in DOMAIN tbl}) + 1

\* the status left to the column default
create_order_default_status(tbl, now, customer_name, status, amount) ==
    Order(next_id(tbl), customer_name, "pending", amount, now)

\* crud.py lines 10-15: the row as refreshed after the commit
create_order(tbl, now, customer_name, status, amount) ==
    Order(next_id(tbl), customer_name, status, amount, now)

\* routes/orders.py lines 25-31: the query parameters of GET /orders; a parameter
\* that was not sent is Null (status) or None
ListQuery(page, limit, status, min_amount, max_amount, start_date, end_date) ==
    [page |-> page, limit |-> limit, status |-> status,
     min_amount |-> min_amount, max_amount |-> max_amount,
     start_date |-> start_date, end_date |-> end_date]

Filter(status, min_amount, max_amount, start_date, end_date) ==
    ListQuery(1, 1, status, min_amount, max_amount, start_date, end_date)

\* filters asked for on every page and at every limit
PagedFilters ==
    {Filter(Null, None, None, None, None),
     Filter("pending", None, None, None, None),
     Filter("", None, None, None, None)}

\* filters asked for on the first page, two orders a page
OtherFilters ==
    {Filter("cancelled", None, None, None, None),
     Filter(Null, Some(2), None, None, None),
     Filter("pending", None, Some(2), None, None),
     Filter(Null, Some(0), Some(1), None, Some(0)),
     Filter(Null, None, None, Some(1), None),
     Filter(Null, Some(3), Some(1), None, None),
     Filter(Null, Some(3), Some(0), None, None),
     Filter(Null, None, None, Some(1), Some(0))}

ListQueries ==
    {[f EXCEPT !.page = p, !.limit = l] : p \in 1..MaxPage, l \in {1, 2, LimitMax},
                                           f \in PagedFilters}
    \cup {[f EXCEPT !.limit = 2] : f \in OtherFilters}
    \cup {ListQuery(0, 2, Null, None, None, None, None),
          ListQuery(1, 0, Null, None, None, None, None),
          ListQuery(1, LimitMax + 1, Null, None, None, None, None),
          ListQuery(1, 2, Null, Some(-1), None, None, None)}

\* routes/orders.py lines 25-29: ge and le of the Query declarations
ListQuery_valid(q) ==
    /\ q.page >= 1
    /\ q.limit >= 1
    /\ q.limit <= LimitMax
    /\ q.min_amount.some => q.min_amount.val >= 0
    /\ q.max_amount.some => q.max_amount.val >= 0

\* Python truth of an optional string and of an optional number; a datetime that
\* is not None is always true
truthy_str(x) == x # Null /\ x # ""
truthy_num(x) == x.some /\ x.val # 0

\* crud.py lines 28-37: the filters added to the query
selected(o, q) ==
    /\ truthy_str(q.status) => o.status = q.status
    /\ q.min_amount.some => o.amount >= q.min_amount.val
    /\ q.max_amount.some => o.amount <= q.max_amount.val
    /\ q.start_date.some => o.created_at >= q.start_date.val
    /\ q.end_date.some => o.created_at <= q.end_date.val

query_of(tbl, q) == SelectSeq(tbl, LAMBDA o : selected(o, q))

\* crud.py lines 38-41: HTTPException is not imported in crud.py (lines 6-8), so
\* evaluating the raise statement raises NameError
range_error(q) ==
    IF truthy_num(q.min_amount) /\ truthy_num(q.max_amount)
       /\ q.min_amount.val > q.max_amount.val
    THEN "NameError"
    ELSE IF q.start_date.some /\ q.end_date.some /\ q.start_date.val > q.end_date.val
         THEN "NameError"
         ELSE Null

\* ties on created_at broken by ascending id
listing_before_id_ascending(a, b) ==
    \/ a.created_at > b.created_at
    \/ a.created_at = b.created_at /\ a.id < b.id

\* crud.py lines 44-46: created_at descending, then id descending
listing_before(a, b) ==
    \/ a.created_at > b.created_at
    \/ a.created_at = b.created_at /\ a.id > b.id

order_by(rows) ==
    LET place(i) == 1 + Cardinality({j \in DOMAIN rows : listing_before(rows[j], rows[i])})
    IN [n \in DOMAIN rows |-> rows[CHOOSE i \in DOMAIN rows : place(i) = n]]

\* the offset taken as page * limit
page_slice_offset_from_page(rows, page, limit) ==
    SubSeq(rows, page * limit + 1,
           IF (page + 1) * limit < Len(rows) THEN (page + 1) * limit ELSE Len(rows))

\* crud.py line 47: offset((page - 1) * limit).limit(limit)
page_slice(rows, page, limit) ==
    SubSeq(rows, (page - 1) * limit + 1,
           IF page * limit < Len(rows) THEN page * limit ELSE Len(rows))

\* crud.py lines 17-48
get_orders(tbl, q) ==
    IF range_error(q) # Null
    THEN [raised |-> range_error(q), orders |-> <<>>, total |-> 0]
    ELSE [raised |-> Null,
          orders |-> page_slice(order_by(query_of(tbl, q)), q.page, q.limit),
          total |-> Len(query_of(tbl, q))]

\* total // limit
total_pages_of_floor(total, limit) == IF total > 0 THEN total \div limit ELSE 0

\* routes/orders.py line 40: math.ceil(total / limit) if total > 0 else 0
total_pages_of(total, limit) == IF total > 0 THEN (total + limit - 1) \div limit ELSE 0

\* routes/orders.py lines 23-54, with FastAPI's answers to a rejected parameter (422)
\* and to an exception the handler lets out (500)
list_orders(tbl, q) ==
    IF ~ListQuery_valid(q)
    THEN [status_code |-> 422, detail |-> "validation error"]
    ELSE LET got == get_orders(tbl, q)
             total_pages == total_pages_of(got.total, q.limit)
         IN IF got.raised # Null
            THEN [status_code |-> 500, detail |-> "Internal Server Error",
                  error |-> got.raised]
            ELSE [status_code |-> 200,
                  data |-> got.orders,
                  pagination |-> [total |-> got.total, page |-> q.page,
                                  limit |-> q.limit, total_pages |-> total_pages,
                                  has_next |-> q.page < total_pages,
                                  has_previous |-> q.page > 1]]

\* routes/orders.py lines 19-21 and crud.py lines 10-15: POST /orders
PostOrder ==
    /\ \E body \in PostBodies :
         /\ request' = [method |-> "POST", body |-> body]
         /\ IF OrderCreate_valid(body)
            THEN /\ Len(orders) < MaxOrders
                 /\ LET row == create_order(orders, db_now, body.customer_name,
                                            body.status, body.amount)
                    IN /\ orders' = Append(orders, row)
                       /\ response' = [status_code |-> 201, order |-> row]
            ELSE /\ response' = [status_code |-> 422, detail |-> "validation error"]
                 /\ UNCHANGED orders
    /\ UNCHANGED <<evaluator, db_now>>

\* routes/orders.py lines 23-54: GET /orders
ListOrders ==
    /\ \E q \in ListQueries :
         /\ request' = [method |-> "GET", query |-> q]
         /\ response' = list_orders(orders, q)
    /\ UNCHANGED <<evaluator, orders, db_now>>

\* models.py line 14: func.now() of the database server moves on
Tick ==
    /\ db_now < MaxClock
    /\ db_now' = db_now + 1
    /\ UNCHANGED <<evaluator, orders, request, response>>

InitOrders ==
    /\ evalFile = [state |-> "absent", content |-> <<>>]
    /\ vectorstore = IndexA
    /\ crossEncoder = ScoresA
    /\ detailFiles = [l \in Labels |-> NoFile]
    /\ reportFile = NoFile
    /\ diskBefore = [details |-> [l \in Labels |-> NoFile], report |-> NoFile]
    /\ EvaluatorIdle
    /\ ApiIdle

NextOrders == PostOrder \/ ListOrders \/ Tick

SpecOrders == InitOrders /\ [][NextOrders]_vars

\* ------------------------------------------------------------------ claims
Last(s) == s[Len(s)]
IsMatch(rec, j) ==
    /\ rec.retrieved_sources[j + 1] # Empty
    /\ Contains(rec.expected_source_basenames, basename(rec.retrieved_sources[j + 1]))
IsEarliestMatch(rec, j) ==
    /\ j \in 0..(Len(rec.retrieved_sources) - 1)
    /\ IsMatch(rec, j)
    /\ \A i \in 0..(j - 1) : ~IsMatch(rec, i)
FoundFor(n) ==
    similarity_search(vectorstore, queries[n].question,
                      search_size(args.rerank, args.k, pre_k))

\* C1: a record with non-empty expected_source_basenames and at most k retrieved
\* sources whose earliest basename match is at 0-based index j has file_hit = true,
\* file_rank = j and rank_score = (k - j) / k.
C1_RankScoreAtEarliestMatch ==
    \A n \in 1..Len(details) :
        LET rec == details[n]
        IN \A j \in 0..(MaxK + MaxPreK) :
              (/\ rec.expected_source_basenames # <<>>
               /\ Len(rec.retrieved_sources) <= args.k
               /\ IsEarliestMatch(rec, j))
              => /\ rec.file_hit
                 /\ rec.file_rank = Some(j)
                 /\ rec.rank_score.den # 0
                 /\ RatEq(rec.rank_score, Rat(args.k - j, args.k))
                 /\ (j = 0 => RatEq(rec.rank_score, Rat(1, 1)))
                 /\ (j = args.k - 1 => RatEq(rec.rank_score, Rat(1, args.k)))

\* a match in the last of k > 1 places scores 1/k
C1_Witness ==
    \E n \in 1..Len(details) :
        /\ args.k > 1
        /\ IsEarliestMatch(details[n], args.k - 1)
        /\ RatEq(details[n].rank_score, Rat(1, args.k))

\* C2: a record whose expected_source_basenames is empty after the legacy merge has
\* rank_score = 0.0, file_hit = false and no file_rank, whatever was retrieved.
C2_NoGroundTruthScoresZero ==
    \A n \in 1..Len(details) :
        details[n].expected_source_basenames = <<>>
        => /\ details[n].rank_score = Zero
           /\ details[n].file_hit = FALSE
           /\ details[n].file_rank = None

\* no ground truth, yet documents with sources were retrieved
C2_Witness ==
    \E n \in 1..Len(details) :
        /\ details[n].expected_source_basenames = <<>>
        /\ \E i \in 1..Len(details[n].retrieved_sources) :
              details[n].retrieved_sources[i] # Empty
        /\ details[n].rank_score = Zero

\* C3: under either strategy, when the similarity search returns no document the
\* step that takes the result appends the all-empty zero record for that query,
\* issues no re-ranker call and moves on to the next query.
C3_EmptySearchStep ==
    (/\ pc = "searching"
     /\ FoundFor(qi) = <<>>
     /\ pc' # "failed")
    => /\ pc' = "loop"
       /\ qi' = qi + 1
       /\ error' = Null
       /\ calls' = calls
       /\ ~\E i \in 1..Len(calls') : calls'[i].op = "predict" /\ calls'[i].query = qi
       /\ Len(details') = Len(details) + 1
       /\ Last(details').id = queries[qi].id
       /\ Last(details').rank_score = Zero
       /\ Last(details').retrieved_doc_types = <<>>
       /\ Last(details').retrieved_sources = <<>>
       /\ Last(details').doc_type_hit = FALSE
       /\ Last(details').file_hit = FALSE
       /\ Last(details').file_rank = None
       /\ Last(rank_scores') = Zero
C3_EmptySearchShortCircuits == [][C3_EmptySearchStep]_vars

\* a re-ranking run went past a query with no documents and scored the next one
C3_Witness ==
    /\ args.rerank
    /\ Len(details) = 2
    /\ FoundFor(1) = <<>>
    /\ details[1].retrieved_sources = <<>>
    /\ details[2].retrieved_sources # <<>>
    /\ \A i \in 1..Len(calls) : calls[i].op = "predict" => calls[i].query = 2

\* C4: a query file holding zero queries gives, without error, num_queries = 0,
\* hit_at_k_doc_type = 0.0, avg_rank_score = 0.0 and an empty detail sequence.
C4_ZeroQueriesStep ==
    (pc = "loop" /\ queries = <<>>)
    => /\ pc' = "returned"
       /\ returned'
       /\ error' = Null
       /\ metrics'.num_queries = 0
       /\ metrics'.hit_at_k_doc_type = Zero
       /\ metrics'.avg_rank_score = Zero
       /\ details' = <<>>
C4_ZeroQueries == [][C4_ZeroQueriesStep]_vars

C4_Witness ==
    /\ pc = "exited"
    /\ evalFile.state = "ok"
    /\ evalFile.content = <<>>
    /\ metrics.num_queries = 0
    /\ detailFiles[args.label] = File(<<>>)

\* the same run asked for with pre_k = k, over the same file and backend
RefDetails ==
    [i \in 1..Len(evalFile.content) |->
        query_record(evalFile.content[i], vectorstore, crossEncoder, args.k, TRUE, args.k)]
RefMetrics ==
    metrics_of(Len(RefDetails),
               Cardinality({i \in 1..Len(RefDetails) : RefDetails[i].doc_type_hit}),
               [i \in 1..Len(RefDetails) |-> RefDetails[i].rank_score])

\* C5: a re-ranking run with pre_k < k asks every similarity search for k candidates
\* and produces the detail records and metrics of the same run with pre_k = k.
C5_PreKBelowKActsAsK ==
    (args.rerank /\ args.pre_k < args.k)
    => /\ \A i \in 1..Len(calls) :
             calls[i].op = "similarity_search" => calls[i].n = args.k
       /\ \A n \in 1..Len(details) : details[n] = RefDetails[n]
       /\ returned => /\ Len(details) = Len(RefDetails)
                      /\ metrics = RefMetrics

\* such a run completed and kept more documents than the pre_k it was given
C5_Witness ==
    /\ pc = "exited"
    /\ args.rerank
    /\ args.pre_k < args.k
    /\ \E n \in 1..Len(details) : Len(details[n].retrieved_sources) > args.pre_k

\* C6: after a completed batch num_queries is the number of queries in the file,
\* hit_at_k_doc_type is the share of records with doc_type_hit and avg_rank_score
\* is the mean of the records' rank_score, zero-document queries included.
C6_MetricsAgreeWithDetails ==
    returned =>
        LET n == Len(evalFile.content)
            hits == Cardinality({i \in 1..Len(details) : details[i].doc_type_hit})
            total == SumRat([i \in 1..Len(details) |-> details[i].rank_score])
        IN /\ metrics.num_queries = n
           /\ Len(details) = n
           /\ n > 0 => /\ metrics.hit_at_k_doc_type.den # 0
                       /\ metrics.avg_rank_score.den # 0
                       /\ RatEq(metrics.hit_at_k_doc_type, Rat(hits, n))
                       /\ RatEq(metrics.avg_rank_score, RatDivInt(total, n))

\* a batch of two: one query short-circuited, the other a doc-type and file hit
C6_Witness ==
    /\ returned
    /\ args.rerank
    /\ Len(details) = 2
    /\ \E i, j \in 1..2 :
          /\ details[i].retrieved_sources = <<>>
          /\ details[j].doc_type_hit
          /\ RatLess(Zero, details[j].rank_score)
    /\ RatEq(metrics.hit_at_k_doc_type, Rat(1, 2))

DocTypeOf(d) == IF d.has_doc_type THEN d.doc_type ELSE "unknown"

\* C7: the record a step appends has doc_type_hit exactly when the query's
\* expected_doc_type is present and non-empty and equals the doc_type of some
\* retrieved document, a document without doc_type counting as "unknown".
C7_DocTypeHitStep ==
    (Len(details') = Len(details) + 1)
    => LET q == queries[qi]
           retrieved == IF args.rerank /\ pc = "searching" THEN FoundFor(qi) ELSE top_docs'
       IN Last(details').doc_type_hit
          <=> /\ q.has_expected_doc_type
              /\ q.expected_doc_type # ""
              /\ \E i \in 1..Len(retrieved) : DocTypeOf(retrieved[i]) = q.expected_doc_type
C7_DocTypeHit == [][C7_DocTypeHitStep]_vars

\* "unknown" was expected and a document without doc_type, not the first, gave the hit
C7_Witness ==
    \E n \in 1..Len(details) :
        /\ details[n].expected_doc_type = "unknown"
        /\ details[n].doc_type_hit
        /\ details[n].retrieved_doc_types[1] # "unknown"

LoaderError(state) ==
    CASE state = "absent" -> "FileNotFoundError"
      [] state = "bad_utf8" -> "UnicodeDecodeError"
      [] OTHER -> "JSONDecodeError"

C9_BadFileAbortsBeforeRetrieval ==
    evalFile.state # "ok"
    => /\ calls = <<>>
       /\ ~returned
       /\ stdout = <<>>
       /\ detailFiles = diskBefore.details
       /\ reportFile = diskBefore.report
       /\ pc \in {"start", "setup", "load", "failed"}

\* the run died in the loader, next to output files of an earlier run
C9_Witness ==
    /\ pc = "failed"
    /\ error = "FileNotFoundError"
    /\ reportFile.exists
    /\ detailFiles["A"].exists

\* C10: an output file differs from what the run found only once every query has
\* its record; a run that died of a backend failure left both files as they were
\* and issued no call for a later query.
C10_FilesWrittenAfterBatch ==
    /\ (detailFiles # diskBefore.details \/ reportFile # diskBefore.report)
       => /\ returned
          /\ qi > Len(queries)
          /\ Len(details) = Len(queries)
          /\ Len(queries) = Len(evalFile.content)
    /\ pc = "failed"
       => /\ detailFiles = diskBefore.details
          /\ reportFile = diskBefore.report
          /\ ~returned
          /\ Len(details) = qi - 1
          /\ \A i \in 1..Len(calls) : calls[i].query <= qi

\* the backend failed at the second query, after the first had its record
C10_Witness ==
    /\ pc = "failed"
    /\ error = "BackendError"
    /\ qi = 2
    /\ Len(details) = 1
    /\ Len(queries) = 2
    /\ reportFile = File(OldReport)

Sections(content) == {i \in 1..Len(content) : content[i].kind = "section"}
Titles(content) == {i \in 1..Len(content) : content[i].kind = "title"}
IsPrefix(s, t) == Len(s) <= Len(t) /\ SubSeq(t, 1, Len(s)) = s
SameInputs(a, b) == a.k = b.k /\ a.rerank = b.rerank /\ a.pre_k = b.pre_k

\* C11: once a run has written its detail log, the file of its label holds exactly
\* that run's records, one per query, whatever earlier runs with the label left
\* there, and the files of the other labels are as the run found them.
C11_DetailLogOverwritten ==
    pc \in {"report", "exited"}
    => /\ detailFiles[args.label] = File(details)
       /\ Len(detailFiles[args.label].content) = Len(evalFile.content)
       /\ \A i \in 1..Len(details) :
             detailFiles[args.label].content[i].id = evalFile.content[i].id
       /\ \A l \in Labels \ {args.label} : detailFiles[l] = diskBefore.details[l]

\* a second run with the same label replaced different records of the first
C11_Witness ==
    /\ pc = "exited"
    /\ runs = 1
    /\ prev.args.label = args.label
    /\ diskBefore.details[args.label] = File(prev.details)
    /\ prev.details # details
    /\ detailFiles[args.label] = File(details)

\* C12: the report a run found is a prefix of the report at every later point of
\* the run; a completed run added exactly one section, its own, after that of the
\* run before it, and a title only when it found no file.
C12_ReportAppendOnly ==
    LET before == diskBefore.report.content
        after == reportFile.content
    IN /\ IsPrefix(before, after)
       /\ diskBefore.report.exists => Titles(after) = Titles(before)
       /\ pc # "exited" => reportFile = diskBefore.report
       /\ pc = "exited"
          => /\ reportFile.exists
             /\ Titles(after) = {1}
             /\ Cardinality(Sections(after)) = Cardinality(Sections(before)) + 1
             /\ Len(after) = (IF diskBefore.report.exists THEN Len(before) ELSE 1) + 1
             /\ after[Len(after)].kind = "section"
             /\ after[Len(after)].label = args.label
             /\ after[Len(after)].rerank = args.rerank
             /\ prev.set => /\ after[Len(after) - 1].kind = "section"
                            /\ after[Len(after) - 1].label = prev.args.label
                            /\ after[Len(after) - 1].rerank = prev.args.rerank

\* two completed runs on a report that did not exist: one title, two sections
C12_Witness ==
    /\ pc = "exited"
    /\ runs = 1
    /\ Len(reportFile.content) = 3
    /\ reportFile.content[2].rerank # reportFile.content[3].rerank

\* C13: a run given the k, rerank flag and pre_k of the completed run before it,
\* over the same query file and backend, returns the same metrics and the same
\* detail records.
C13_RerunIsIdentical ==
    (returned /\ prev.set /\ SameInputs(prev.args, args))
    => /\ metrics = prev.metrics
       /\ details = prev.details

\* both runs went through a query whose list the legacy merge extended in place
C13_Witness ==
    /\ pc = "exited"
    /\ prev.set
    /\ SameInputs(prev.args, args)
    /\ \E i \in 1..Len(queries) : queries[i] # evalFile.content[i]
    /\ \E i \in 1..Len(details) : details[i].file_hit
    /\ details = prev.details

IsGet200 == request.method = "GET" /\ response.status_code = 200
Ids(tbl) == {tbl[i].id : i \in DOMAIN tbl}
PositionIn(tbl, o) == CHOOSE n \in DOMAIN tbl : tbl[n] = o

\* the filters as sent: a parameter counts as supplied when it is in the request
satisfies(o, q) ==
    /\ q.status # Null => o.status = q.status
    /\ q.min_amount.some => o.amount >= q.min_amount.val
    /\ q.max_amount.some => o.amount <= q.max_amount.val
    /\ q.start_date.some => o.created_at >= q.start_date.val
    /\ q.end_date.some => o.created_at <= q.end_date.val

\* C14: a 200 answer of GET /orders for page p and limit L, T being the number of
\* stored orders the query selects, has total = T, total_pages the least n with
\* n * L >= T (0 when T = 0), has_next iff p < total_pages, has_previous iff p > 1.
C14_PaginationMetadata ==
    IsGet200
    => LET T == Cardinality({i \in DOMAIN orders : selected(orders[i], request.query)})
           p == request.query.page
           L == request.query.limit
           m == response.pagination
       IN /\ L \in 1..LimitMax /\ p >= 1
          /\ m.total = T /\ m.page = p /\ m.limit = L
          /\ m.total_pages * L >= T
          /\ m.total_pages > 0 => (m.total_pages - 1) * L < T
          /\ T = 0 => m.total_pages = 0
          /\ m.has_next <=> p < m.total_pages
          /\ m.has_previous <=> p > 1

\* three orders at two per page, second and last page
C14_Witness ==
    /\ IsGet200
    /\ response.pagination.total = 3
    /\ request.query.limit = 2
    /\ request.query.page = 2
    /\ response.pagination.total_pages = 2
    /\ ~response.pagination.has_next
    /\ response.pagination.has_previous

\* C15: every order in the data of a 200 answer satisfies every filter of the
\* request, and pagination.total is the number of stored orders that satisfy them.
C15_FiltersApplied ==
    IsGet200
    => /\ \A i \in DOMAIN response.data : satisfies(response.data[i], request.query)
       /\ response.pagination.total
            = Cardinality({i \in DOMAIN orders : satisfies(orders[i], request.query)})

\* C16: an accepted GET /orders whose min_amount exceeds its max_amount, or whose
\* start_date is after its end_date, is answered 400 with the matching detail.
C16_InvertedRangeRejected ==
    (request.method = "GET" /\ ListQuery_valid(request.query))
    => LET q == request.query
       IN /\ (q.min_amount.some /\ q.max_amount.some
              /\ q.min_amount.val > q.max_amount.val)
             => /\ response.status_code = 400
                /\ response.detail = "min_amount cannot be greater than max_amount"
          /\ (q.start_date.some /\ q.end_date.some /\ q.start_date.val > q.end_date.val)
             => /\ response.status_code = 400
                /\ response.detail = "start_date cannot be greater than end_date"

Rejectable(body) ==
    \/ body.status \notin {"pending", "completed", "cancelled"}
    \/ body.amount <= 0
    \/ body.customer_name = <<>>

\* C17: a POST /orders whose status is not one of the three, whose amount is not
\* positive or whose customer_name is empty is answered 422 and the table is as
\* it was.
C17_InvalidPostRejected ==
    [][(request'.method = "POST" /\ Rejectable(request'.body))
       => (response'.status_code = 422 /\ orders' = orders)]_vars

\* an amount of zero, otherwise valid, refused over a table that has rows
C17_Witness ==
    /\ request.method = "POST"
    /\ request.body = OrderCreate(Ann, "pending", 0)
    /\ response.status_code = 422
    /\ Len(orders) >= 1

\* C18: the data of a 200 answer for page p and limit L are the items
\* (p-1)*L+1 .. p*L of the selected orders in listing order, min(L, max(0, T-(p-1)*L))
\* of them; total is T on every page, a page after the last is empty, and pages
\* 1..total_pages of the same query hold every selected order exactly once.
C18_PageContents ==
    IsGet200
    => LET q == request.query
           p == q.page
           L == q.limit
           listing == order_by(query_of(orders, q))
           T == Len(listing)
           data == response.data
           rest == IF T - (p - 1) * L > 0 THEN T - (p - 1) * L ELSE 0
           page(j) == list_orders(orders, [q EXCEPT !.page = j]).data
       IN /\ Len(data) = (IF L < rest THEN L ELSE rest)
          /\ \A i \in DOMAIN data : data[i] = listing[(p - 1) * L + i]
          /\ response.pagination.total = T
          /\ p > response.pagination.total_pages => data = <<>>
          /\ \A n \in 1..T :
                Cardinality({ji \in (1..response.pagination.total_pages) \X (1..T) :
                                /\ ji[2] \in DOMAIN page(ji[1])
                                /\ page(ji[1])[ji[2]] = listing[n]}) = 1

\* the short last page of three orders at two per page
C18_Witness ==
    /\ IsGet200
    /\ request.query.page = 2
    /\ request.query.limit = 2
    /\ response.pagination.total = 3
    /\ Len(response.data) = 1
    /\ response.data[1] = orders[1]

\* C19: in the data of a 200 answer an order comes before another iff its
\* created_at is greater, or equal with a greater id; an order created later than
\* another comes before it, on the page and across the pages before it.
C19_NewestFirst ==
    IsGet200
    => LET q == request.query
           data == response.data
           page(j) == list_orders(orders, [q EXCEPT !.page = j]).data
       IN /\ \A i, j \in DOMAIN data :
                i < j => \/ data[i].created_at > data[j].created_at
                         \/ /\ data[i].created_at = data[j].created_at
                            /\ data[i].id > data[j].id
          /\ \A i, j \in DOMAIN data :
                PositionIn(orders, data[i]) > PositionIn(orders, data[j]) => i < j
          /\ \A e \in 1..(q.page - 1) : \A i \in DOMAIN page(e) : \A j \in DOMAIN data :
                PositionIn(orders, page(e)[i]) > PositionIn(orders, data[j])

\* two orders of the same second after an older one, all on one page
C19_Witness ==
    /\ IsGet200
    /\ Len(response.data) = 3
    /\ response.data[1].created_at = response.data[2].created_at
    /\ response.data[2].created_at > response.data[3].created_at
    /\ response.data[1] = orders[3]

\* C20: a valid POST /orders is answered 201 with the stored order: the request's
\* customer_name, status and amount, an id no stored order had, and a created_at;
\* the table afterwards is the table before with that one order added.
C20_ValidPostStoresOne ==
    [][(request'.method = "POST" /\ OrderCreate_valid(request'.body)
        /\ db_now' = db_now)
       => /\ response'.status_code = 201
          /\ response'.order.customer_name = request'.body.customer_name
          /\ response'.order.status = request'.body.status
          /\ response'.order.amount = request'.body.amount
          /\ response'.order.id \notin Ids(orders)
          /\ response'.order.created_at = db_now
          /\ orders' = Append(orders, response'.order)]_vars

\* a completed order stored as the third row
C20_Witness ==
    /\ request.method = "POST"
    /\ response.status_code = 201
    /\ request.body.status = "completed"
    /\ Len(orders) = 3
    /\ orders[3] = response.order
    /\ orders[3].id = 3

\* lists of at most k documents that a backend can hand to the scorer
AltLists(k) ==
    {Take(b.index[qu], m) : b \in Backends, qu \in Questions, m \in 0..k}
    \cup {rerank_top(b.scores, b.index[qu], k) : b \in Backends, qu \in Questions}
HasMatch(rec) == \E j \in 0..(Len(rec.retrieved_sources) - 1) : IsMatch(rec, j)

\* C21: for the k of the run and a record with non-empty ground truth, against the
\* record the same query gets from any other list of at most k documents: the one
\* whose earliest match is at the strictly earlier index has the strictly greater
\* rank_score, and one with a match scores strictly more than one without.
C21_EarlierMatchScoresMore ==
    \A n \in 1..Len(details) :
        LET rec == details[n]
        IN rec.expected_source_basenames # <<>>
           => \A alt \in AltLists(args.k) :
                 LET other == scored_record(evalFile.content[n],
                                            rec.expected_source_basenames, alt, args.k)
                 IN /\ \A i, j \in 0..(MaxK + 1) :
                          (IsEarliestMatch(rec, i) /\ IsEarliestMatch(other, j))
                          => /\ i < j => RatLess(other.rank_score, rec.rank_score)
                             /\ j < i => RatLess(rec.rank_score, other.rank_score)
                    /\ (HasMatch(rec) /\ ~HasMatch(other))
                       => RatLess(other.rank_score, rec.rank_score)
                    /\ (HasMatch(other) /\ ~HasMatch(rec))
                       => RatLess(rec.rank_score, other.rank_score)

\* a record matched in the middle place of three: other lists match earlier, later
\* and not at all
C21_Witness ==
    \E n \in 1..Len(details) :
        /\ args.k = 3
        /\ IsEarliestMatch(details[n], 1)
        /\ \E a, b, c \in AltLists(args.k) :
              LET sc(alt) == scored_record(evalFile.content[n],
                                           details[n].expected_source_basenames, alt, args.k)
              IN /\ IsEarliestMatch(sc(a), 0)
                 /\ IsEarliestMatch(sc(b), 2)
                 /\ ~HasMatch(sc(c)) /\ c # <<>>

\* C22: in every record file_rank is present exactly when some retrieved source is
\* non-empty and has its basename among expected_source_basenames, and is then the
\* least index of such a source; a document with an empty source is never a match.
C22_FileRankIsEarliestMatch ==
    \A n \in 1..Len(details) :
        LET rec == details[n]
        IN /\ rec.file_rank.some <=> HasMatch(rec)
           /\ rec.file_rank.some => IsEarliestMatch(rec, rec.file_rank.val)
           /\ \A j \in 0..(Len(rec.retrieved_sources) - 1) :
                 (rec.file_rank.some /\ rec.retrieved_sources[j + 1] = Empty)
                 => rec.file_rank.val # j

\* the empty string is expected: a document without source comes first and does
\* not count, the one after it, whose source ends in "/", does
C22_Witness ==
    \E n \in 1..Len(details) :
        /\ Contains(details[n].expected_source_basenames, Empty)
        /\ \E i \in 1..Len(details[n].retrieved_sources) :
              /\ details[n].retrieved_sources[i] = Empty
              /\ details[n].file_rank.some
              /\ details[n].file_rank.val > i - 1

\* C23: while the batch runs the detail sequence holds one record for each query
\* already gone through, in the order of the file, each with the id and question of
\* its query; once the batch has returned it holds one record for every query of
\* the file, the queries whose retrieval came back empty included.
C23_OneRecordPerQueryInOrder ==
    /\ Len(details) <= Len(evalFile.content)
    /\ pc \in {"loop", "searching", "reranking"} => Len(details) = qi - 1
    /\ returned => Len(details) = Len(evalFile.content)
    /\ \A i \in 1..Len(details) :
          /\ details[i].id = evalFile.content[i].id
          /\ details[i].question = evalFile.content[i].question

\* a re-ranking batch of two whose second query found no document
C23_Witness ==
    /\ returned
    /\ args.rerank
    /\ Len(details) = 2
    /\ details[1].retrieved_sources # <<>>
    /\ details[2].retrieved_sources = <<>>
    /\ details[1].id # details[2].id

DocSet(ds) == {ds[i] : i \in 1..Len(ds)}

\* C24: the step that takes the cross-encoder's scores of a non-empty candidate
\* list scores min(k, number of candidates) documents: distinct candidates, in
\* descending order of score, none scoring less than a candidate left out; under
\* either strategy no record lists more than k documents.
C24_RerankKeepsBestStep ==
    /\ (pc = "reranking" /\ pc' = "loop")
       => LET top == top_docs'
              left == DocSet(docs) \ DocSet(top)
          IN /\ docs # <<>>
             /\ Len(top) = (IF args.k < Len(docs) THEN args.k ELSE Len(docs))
             /\ DocSet(top) \subseteq DocSet(docs)
             /\ Cardinality(DocSet(top)) = Len(top)
             /\ \A i, j \in 1..Len(top) :
                   i < j => ScoreOf(crossEncoder, top[i]) >= ScoreOf(crossEncoder, top[j])
             /\ \A d \in left : \A i \in 1..Len(top) :
                   ScoreOf(crossEncoder, d) <= ScoreOf(crossEncoder, top[i])
             /\ Last(details').retrieved_sources = retrieved_sources_of(top)
    /\ \A n \in 1..Len(details') : Len(details'[n].retrieved_sources) <= args.k
C24_RerankKeepsBest == [][C24_RerankKeepsBestStep]_vars

\* more candidates than k, and the scores put a later candidate first
C24_Witness ==
    /\ args.rerank
    /\ pc = "loop"
    /\ Len(details) >= 1
    /\ Len(docs) > args.k
    /\ Len(top_docs) = args.k
    /\ top_docs # Take(docs, args.k)
    /\ Last(details).retrieved_sources = retrieved_sources_of(top_docs)

InUnitInterval(r) == r.den > 0 /\ 0 <= r.num /\ r.num <= r.den

\* C25: in every record expected_source_basenames, as it stands after the legacy
\* merge, has no entry twice, and holds the query's legacy expected_source_basename
\* whenever that key is present and non-empty.
C25_MergedListHasNoDuplicates ==
    \A n \in 1..Len(details) :
        LET merged == details[n].expected_source_basenames
            q == evalFile.content[n]
        IN /\ \A i, j \in 1..Len(merged) : i # j => merged[i] # merged[j]
           /\ (q.has_expected_source_basename /\ q.expected_source_basename # Empty)
              => Contains(merged, q.expected_source_basename)

\* C26: with k >= 1 every recorded rank_score is a number from 0 to 1, and so are
\* avg_rank_score and hit_at_k_doc_type of the metrics.
C26_ScoresInUnitInterval ==
    args.k >= 1
    => /\ \A n \in 1..Len(details) : InUnitInterval(details[n].rank_score)
       /\ \A n \in 1..Len(rank_scores) : InUnitInterval(rank_scores[n])
       /\ InUnitInterval(metrics.avg_rank_score)
       /\ InUnitInterval(metrics.hit_at_k_doc_type)

\* both ends recorded in one batch with k > 1, the mean strictly between them
C26_Witness ==
    /\ returned
    /\ args.k > 1
    /\ \E i, j \in 1..Len(details) :
          /\ RatEq(details[i].rank_score, Rat(1, 1))
          /\ details[j].rank_score = Zero
    /\ RatLess(Zero, metrics.avg_rank_score)
    /\ RatLess(metrics.avg_rank_score, Rat(1, 1))

\* C27: the section a completed run appended to the report has a pre_k entry
\* exactly when the run re-ranked, and always has the vector-index directory, the
\* eval-file path, k, the rerank flag and the two metrics to three decimals.
C27_ReportSectionFields ==
    pc = "exited"
    => LET sec == Last(reportFile.content)
       IN /\ sec.kind = "section"
          /\ sec.pre_k.some <=> args.rerank
          /\ sec.db_dir = DbDir
          /\ sec.eval_file = EvalFilePath
          /\ sec.k = args.k
          /\ sec.rerank = args.rerank
          /\ sec.hit_at_k_doc_type = Format3(metrics.hit_at_k_doc_type)
          /\ sec.avg_rank_score = Format3(metrics.avg_rank_score)

\* a re-ranking run whose section carries pre_k, and a metric that had to be rounded
C27_Witness ==
    /\ pc = "exited"
    /\ args.rerank
    /\ Last(reportFile.content).pre_k.some
    /\ Last(reportFile.content).avg_rank_score \in {167, 333, 667, 833}

CallsOf(n) == {i \in 1..Len(calls) : calls[i].query = n}

\* C28: every backend call issued so far belongs to a query whose predecessors all
\* have their record; calls are issued in query order, one search and at most one
\* re-rank per query, the re-rank after the search; while a call is in progress it
\* is the last one issued and the only one of a query without a record, and between
\* queries no call is in progress.
C28_QueriesOneAtATime ==
    /\ \A i \in 1..Len(calls) : calls[i].query <= Len(details) + 1
    /\ \A i, j \in 1..Len(calls) : i < j => calls[i].query <= calls[j].query
    /\ \A n \in 1..(Len(details) + 1) :
          /\ Cardinality(CallsOf(n)) <= 2
          /\ \A i, j \in CallsOf(n) :
                i < j => calls[i].op = "similarity_search" /\ calls[j].op = "predict"
    /\ pc = "searching"
       => /\ CallsOf(qi) = {Len(calls)}
          /\ Last(calls).op = "similarity_search"
          /\ Len(details) = qi - 1
    /\ pc = "reranking"
       => /\ CallsOf(qi) = {Len(calls) - 1, Len(calls)}
          /\ Last(calls).op = "predict"
          /\ Len(details) = qi - 1
    /\ pc \in {"loop", "returned", "report", "exited"} => CallsOf(Len(details) + 1) = {}

\* the second query's re-rank in progress, after the first query's two calls
C28_Witness ==
    /\ pc = "reranking"
    /\ qi = 2
    /\ Len(details) = 1
    /\ Len(calls) = 4
    /\ calls[2].op = "predict"
    /\ calls[3].query = 2

\* C29: in every record file_hit, the presence of file_rank and rank_score > 0 go
\* together, and a file_rank that is present is an index into retrieved_sources.
C29_FileFieldsAgree ==
    \A n \in 1..Len(details) :
        LET rec == details[n]
        IN /\ rec.file_hit <=> rec.file_rank.some
           /\ rec.file_hit <=> RatLess(Zero, rec.rank_score)
           /\ rec.rank_score.den > 0
           /\ rec.file_rank.some
              => /\ 0 <= rec.file_rank.val
                 /\ rec.file_rank.val < Len(rec.retrieved_sources)
           /\ ~rec.file_rank.some => rec.file_rank = None /\ rec.rank_score = Zero

\* a hit in the last of k places, the smallest score above zero, next to a record
\* that retrieved documents and has no hit
C29_Witness ==
    \E i, j \in 1..Len(details) :
        /\ details[i].file_hit
        /\ details[i].file_rank = Some(args.k - 1)
        /\ args.k > 1
        /\ ~details[j].file_hit
        /\ details[j].retrieved_sources # <<>>
        /\ details[j].expected_source_basenames # <<>>

\* C30: the section of a completed re-ranking run gives as pre_k the number of
\* candidates the run asked of every similarity search.
C30_ReportedPreKIsEffective ==
    (pc = "exited" /\ args.rerank)
    => /\ Last(reportFile.content).pre_k = Some(pre_k)
       /\ \A i \in 1..Len(calls) :
             calls[i].op = "similarity_search"
             => Last(reportFile.content).pre_k = Some(calls[i].n)

====
